---- MODULE Spec2Model ----
(***************************************************************************)
(* One invocation of tools/text_to_speech.py: argparse, checkArgs, the     *)
(* output-exists test and the four branches of textToSpeech, with the      *)
(* external commands (say, ffmpeg, aws) and the two HTTP endpoints as an   *)
(* environment that chooses each call's outcome.                           *)
(***************************************************************************)
EXTENDS Integers, Sequences, FiniteSets, TLC

\* ---------------------------------------------------------------- bounds
\* longest key string given to --use-google-key / --use-elevenlabs-key
MaxKeyLen == 1
\* number of 4-character base64 groups / 3-byte groups in an HTTP payload
MaxChunks == 1

\* ------------------------------------------------------ program constants
HTTP_OK == 200
EXIT_FAILURE == 1
EXIT_USAGE == 2

\* ------------------------------------------------------ capability tables
sayVoiceByLang ==
    [de |-> "Anna", en |-> "Samantha", fr |-> "Thomas", nl |-> "Xander",
     es |-> "Monica", cz |-> "Zuzana", it |-> "Alice"]

googleVoiceByLang ==
    [de |-> [languageCode |-> "de-DE", name |-> "de-DE-Wavenet-C"],
     en |-> [languageCode |-> "en-US", name |-> "en-US-Wavenet-C"],
     fr |-> [languageCode |-> "fr-FR", name |-> "fr-FR-Wavenet-C"],
     nl |-> [languageCode |-> "nl-NL", name |-> "nl-NL-Wavenet-A"],
     es |-> [languageCode |-> "es-ES", name |-> ""],
     cz |-> [languageCode |-> "cs-CZ", name |-> "cs-CZ-Wavenet-A"],
     it |-> [languageCode |-> "it-IT", name |-> "it-IT-Standard-B"]]

amazonVoiceByLang ==
    [de |-> "Vicki", en |-> "Joanna", fr |-> "Celine", nl |-> "Lotte",
     es |-> "Lucia", it |-> "Carla"]

elevenlabsVoiceByLang ==
    [de |-> "Ewvy14akxdhONg4fmNry", en |-> "NOpBlnGInO9m6vDvFkFC",
     fr |-> "FvmvwvObRqIHojkEGh5N", nl |-> "YUdpWWny7k5yb4QCeweX",
     es |-> "KHCvMklQZZo0O30ERnVn", it |-> "3DPhHWXDY263XJ1d2EPN"]

\* the table behind each table name used in the bookkeeping below
TableOf(t) ==
    CASE t = "say" -> DOMAIN sayVoiceByLang
      [] t = "google" -> DOMAIN googleVoiceByLang
      [] t = "amazon" -> DOMAIN amazonVoiceByLang
      [] t = "elevenlabs" -> DOMAIN elevenlabsVoiceByLang

\* choices=[...] of --lang, and its default
LangChoices == {"de", "en", "fr", "nl", "es", "cz", "it"}
LangDefault == "de"

\* ------------------------------------------------------- command line
\* what may follow --lang on the command line: a choice, something else,
\* or nothing at all (option not given)
ArgvLang == LangChoices \cup {"xx", "absent"}

\* key strings: sequences of characters, the empty string included
KeyStrings == UNION {[1..n -> {"k"}] : n \in 0..MaxKeyLen}

\* an optional str argument with default=None
None == [given |-> FALSE, val |-> <<>>]
Some(s) == [given |-> TRUE, val |-> s]
OptKeys == {None} \cup {Some(s) : s \in KeyStrings}

\* Python truthiness of an optional str: None and "" are both falsy
Truthy(a) == a.given /\ Len(a.val) > 0
IsNone(a) == ~a.given

\* ------------------------------------------------------- files and bytes
NoFile == [exists |-> FALSE, data |-> <<>>]
File(bytes) == [exists |-> TRUE, data |-> bytes]

\* base64 text as a sequence of sextets ("S" is 18, "G" is 6)
Sextets == {18, 6}
B64Texts == UNION {[1..n -> Sextets] : n \in {4 * c : c \in 0..MaxChunks} \cup {2}}

\* base64.b64decode on unpadded text: four sextets give three bytes
RECURSIVE B64Bytes(_)
B64Bytes(s) ==
    IF Len(s) < 4 THEN <<>>
    ELSE LET n == s[1] * 262144 + s[2] * 4096 + s[3] * 64 + s[4]
         IN  <<n \div 65536, (n \div 256) % 256, n % 256>>
             \o B64Bytes(SubSeq(s, 5, Len(s)))

\* b64decode raises binascii.Error on a length that is no multiple of four
B64Valid(s) == Len(s) % 4 = 0

\* raw response bodies of the ElevenLabs endpoint
RawBodies == UNION {[1..n -> {18, 72}] : n \in {3 * c : c \in 0..MaxChunks}}

VARIABLES
    argvLang,          \* --lang as typed
    lang,              \* args.lang
    use_say,           \* args.use_say: TRUE, or FALSE for the default None
    use_amazon,        \* args.use_amazon: TRUE, or FALSE for the default None
    use_google_key,    \* args.use_google_key
    use_elevenlabs_key,\* args.use_elevenlabs_key
    pc,                \* position of the run
    exitStatus,        \* process exit status, -1 while running
    stdout,            \* messages printed, in order
    checked,           \* tables checkLanguage was called with
    branch,            \* branch of textToSpeech entered, "none" before
    calls,             \* external calls issued, in order, with outcome
    outInit,           \* the output path when the program started
    outFile,           \* the output path now
    tempAiff,          \* whether temp.aiff exists
    responseJson,      \* result of postJson
    response,          \* result of requests.post
    removeAttempted    \* os.remove('temp.aiff') was called

vars == <<argvLang, lang, use_say, use_amazon, use_google_key,
          use_elevenlabs_key, pc, exitStatus, stdout, checked, branch, calls,
          outInit, outFile, tempAiff, responseJson, response, removeAttempted>>

argVars == <<argvLang, use_say, use_amazon, use_google_key, use_elevenlabs_key>>

NoJson == [kind |-> "unset", audio |-> <<>>]
NoResponse == [status_code |-> 0, content |-> <<>>]

Init ==
    /\ argvLang \in ArgvLang
    /\ lang = LangDefault
    /\ use_say \in BOOLEAN
    /\ use_amazon \in BOOLEAN
    /\ use_google_key \in OptKeys
    /\ use_elevenlabs_key \in OptKeys
    /\ pc = "parse"
    /\ exitStatus = -1
    /\ stdout = <<>>
    /\ checked = {}
    /\ branch = "none"
    /\ calls = <<>>
    /\ outInit \in {NoFile, File(<<1>>)}
    /\ outFile = outInit
    /\ tempAiff \in BOOLEAN
    /\ responseJson = NoJson
    /\ response = NoResponse
    /\ removeAttempted = FALSE

\* sys.exit(status), or an uncaught exception (status 1), or falling off
\* the end of the script (status 0)
Exit(status, msg) ==
    /\ pc' = "done"
    /\ exitStatus' = status
    /\ stdout' = IF msg = "" THEN stdout ELSE Append(stdout, msg)

\* argparser.parse_args(): choices of --lang, PatchedArgumentParser.error
ParseArgs ==
    /\ pc = "parse"
    /\ IF argvLang \in LangChoices \cup {"absent"}
       THEN /\ lang' = IF argvLang = "absent" THEN LangDefault ELSE argvLang
            /\ pc' = "checkArgs"
            /\ UNCHANGED <<exitStatus, stdout>>
       ELSE /\ Exit(EXIT_USAGE, "usage")
            /\ UNCHANGED lang
    /\ UNCHANGED <<argVars, checked, branch, calls, outInit, outFile,
                   tempAiff, responseJson, response, removeAttempted>>

\* the tables checkArgs hands to checkLanguage, in the order of the code
TablesToCheck(say, google, amazon, eleven) ==
    (IF say THEN <<"say">> ELSE <<>>)
    \o (IF Truthy(google) THEN <<"google">> ELSE <<>>)
    \o (IF amazon THEN <<"amazon">> ELSE <<>>)
    \o (IF Truthy(eleven) THEN <<"elevenlabs">> ELSE <<>>)

\* the first test of checkArgs with the None tests of the two keys inverted
NoSelector_InvertedNone(say, google, amazon, eleven) ==
    ~say /\ ~amazon /\ ~IsNone(google) /\ ~IsNone(eleven)

\* first test of checkArgs: no selector given at all
NoSelector(say, google, amazon, eleven) ==
    ~say /\ ~amazon /\ IsNone(google) /\ IsNone(eleven)

\* checkLanguage: lang not in dictionary
LanguageMissing(t, l) == l \notin TableOf(t)

\* the prefix of the tables that checkLanguage is reached with: it stops
\* at the first table that misses the language
RECURSIVE CheckedPrefix(_, _)
CheckedPrefix(ts, l) ==
    IF ts = <<>> THEN {}
    ELSE IF LanguageMissing(ts[1], l) THEN {ts[1]}
    ELSE {ts[1]} \cup CheckedPrefix(Tail(ts), l)

CheckArgs ==
    /\ pc = "checkArgs"
    /\ LET ts == TablesToCheck(use_say, use_google_key, use_amazon,
                               use_elevenlabs_key)
           seen == CheckedPrefix(ts, lang)
       IN  IF NoSelector(use_say, use_google_key, use_amazon, use_elevenlabs_key)
           THEN /\ Exit(EXIT_USAGE, "no provider")
                /\ UNCHANGED checked
           ELSE /\ checked' = seen
                /\ IF \E t \in seen : LanguageMissing(t, lang)
                   THEN Exit(EXIT_USAGE, "language unsupported")
                   ELSE /\ pc' = "exists"
                        /\ UNCHANGED <<exitStatus, stdout>>
    /\ UNCHANGED <<argVars, lang, branch, calls, outInit, outFile, tempAiff,
                   responseJson, response, removeAttempted>>

\* the output-exists test inverted: an existing file is overwritten
CheckOutputExists_Inverted ==
    /\ pc = "exists"
    /\ IF ~outFile.exists
       THEN Exit(EXIT_FAILURE, "output exists")
       ELSE /\ pc' = "textToSpeech"
            /\ UNCHANGED <<exitStatus, stdout>>
    /\ UNCHANGED <<argVars, lang, checked, branch, calls, outInit, outFile,
                   tempAiff, responseJson, response, removeAttempted>>

\* if os.path.exists(args.output): ... sys.exit(1)
CheckOutputExists ==
    /\ pc = "exists"
    /\ IF outFile.exists
       THEN Exit(EXIT_FAILURE, "output exists")
       ELSE /\ pc' = "textToSpeech"
            /\ UNCHANGED <<exitStatus, stdout>>
    /\ UNCHANGED <<argVars, lang, checked, branch, calls, outInit, outFile,
                   tempAiff, responseJson, response, removeAttempted>>

\* the elif chain with the ElevenLabs test ahead of the Google test
Dispatch_ElevenLabsFirst(useAmazon, useGoogleKey, useElevenLabsKey) ==
    IF useAmazon THEN "amazon"
    ELSE IF Truthy(useElevenLabsKey) THEN "elevenlabs"
    ELSE IF Truthy(useGoogleKey) THEN "google"
    ELSE "say"

\* the elif chain of textToSpeech over its keyword arguments
Dispatch(useAmazon, useGoogleKey, useElevenLabsKey) ==
    IF useAmazon THEN "amazon"
    ELSE IF Truthy(useGoogleKey) THEN "google"
    ELSE IF Truthy(useElevenLabsKey) THEN "elevenlabs"
    ELSE "say"

\* textToSpeechUsingArgs: the arguments it forwards (use_say is not one)
textToSpeechUsingArgs ==
    Dispatch(use_amazon, use_google_key, use_elevenlabs_key)

\* where each branch starts
FirstStep(b) ==
    CASE b = "amazon" -> "aws"
      [] b = "google" -> "postJson"
      [] b = "elevenlabs" -> "requestsPost"
      [] b = "say" -> "say"

\* textToSpeech up to the branch taken
TextToSpeech ==
    /\ pc = "textToSpeech"
    /\ branch' = textToSpeechUsingArgs
    /\ pc' = FirstStep(branch')
    /\ stdout' = Append(stdout, "Generating")
    /\ UNCHANGED <<argVars, lang, exitStatus, checked, calls, outInit,
                   outFile, tempAiff, responseJson, response, removeAttempted>>

\* outcomes of starting an external command: it cannot be started
\* (OSError), or it runs and returns zero or non-zero
ProcessOutcomes == {"oserror", "zero", "nonzero"}

Call(cmd, outcome) == [cmd |-> cmd, outcome |-> outcome]

\* subprocess.check_output(['aws', 'polly', ...]): CalledProcessError on a
\* non-zero return code; aws writes targetFile itself
AwsPolly ==
    /\ pc = "aws"
    /\ IF lang \notin DOMAIN amazonVoiceByLang
       THEN /\ Exit(EXIT_FAILURE, "KeyError")
            /\ UNCHANGED <<calls, outFile>>
       ELSE \E o \in ProcessOutcomes :
            /\ calls' = Append(calls, Call("aws", o))
            /\ \/ /\ o = "zero"
                  /\ outFile' = File(<<73, 68, 51>>)
                  /\ Exit(0, "")
               \/ /\ o = "nonzero"
                  /\ outFile' \in {outFile, File(<<>>)}
                  /\ Exit(EXIT_FAILURE, "CalledProcessError")
               \/ /\ o = "oserror"
                  /\ UNCHANGED outFile
                  /\ Exit(EXIT_FAILURE, "OSError")
    /\ UNCHANGED <<argVars, lang, checked, branch, outInit, tempAiff,
                   responseJson, response, removeAttempted>>

\* what postJson can return: the parsed JSON (a dict with or without
\* audioContent, or something that is no dict), or None after an exception
JsonResults ==
    {[kind |-> "dict", audio |-> a] : a \in B64Texts}
    \cup {[kind |-> "dictNoAudio", audio |-> <<>>],
          [kind |-> "list", audio |-> <<>>]}

\* postJson: any exception of the request or of json.loads is printed and
\* the function returns None
PostJson ==
    /\ pc = "postJson"
    /\ IF lang \notin DOMAIN googleVoiceByLang
       THEN /\ Exit(EXIT_FAILURE, "KeyError")
            /\ UNCHANGED <<calls, responseJson>>
       ELSE \/ /\ calls' = Append(calls, Call("google", "raised"))
               /\ responseJson' = [kind |-> "None", audio |-> <<>>]
               /\ stdout' = Append(stdout, "exception")
               /\ pc' = "audioContent"
               /\ UNCHANGED exitStatus
            \/ /\ calls' = Append(calls, Call("google", "returned"))
               /\ responseJson' \in JsonResults
               /\ pc' = "audioContent"
               /\ UNCHANGED <<exitStatus, stdout>>
    /\ UNCHANGED <<argVars, lang, checked, branch, outInit, outFile,
                   tempAiff, response, removeAttempted>>

\* the Google branch reading audioContent with a default, so that the None
\* of a failed postJson is written out as an empty file
WriteAudioContent_DefaultEmpty ==
    /\ pc = "audioContent"
    /\ IF responseJson.kind \in {"None", "list", "dictNoAudio"}
       THEN outFile' = File(<<>>) /\ Exit(0, "")
       ELSE IF ~B64Valid(responseJson.audio)
       THEN Exit(EXIT_FAILURE, "binascii.Error") /\ UNCHANGED outFile
       ELSE /\ outFile' = File(B64Bytes(responseJson.audio))
            /\ Exit(0, "")
    /\ UNCHANGED <<argVars, lang, checked, branch, calls, outInit, tempAiff,
                   responseJson, response, removeAttempted>>

\* base64.b64decode(responseJson['audioContent']) and the write of the file
WriteAudioContent ==
    /\ pc = "audioContent"
    /\ IF responseJson.kind \in {"None", "list"}
       THEN Exit(EXIT_FAILURE, "TypeError") /\ UNCHANGED outFile
       ELSE IF responseJson.kind = "dictNoAudio"
       THEN Exit(EXIT_FAILURE, "KeyError") /\ UNCHANGED outFile
       ELSE IF ~B64Valid(responseJson.audio)
       THEN Exit(EXIT_FAILURE, "binascii.Error") /\ UNCHANGED outFile
       ELSE /\ outFile' = File(B64Bytes(responseJson.audio))
            /\ Exit(0, "")
    /\ UNCHANGED <<argVars, lang, checked, branch, calls, outInit, tempAiff,
                   responseJson, response, removeAttempted>>

\* status codes the ElevenLabs endpoint answers with
StatusCodes == {HTTP_OK, 401, 500}

\* requests.post(elevenlabs_url, ...): a response, or a transport exception
RequestsPost ==
    /\ pc = "requestsPost"
    /\ \/ /\ calls' = Append(calls, Call("elevenlabs", "raised"))
          /\ Exit(EXIT_FAILURE, "RequestException")
          /\ UNCHANGED response
       \/ /\ calls' = Append(calls, Call("elevenlabs", "returned"))
          /\ response' \in [status_code : StatusCodes, content : RawBodies]
          /\ pc' = "statusCode"
          /\ UNCHANGED <<exitStatus, stdout>>
    /\ UNCHANGED <<argVars, lang, checked, branch, outInit, outFile,
                   tempAiff, responseJson, removeAttempted>>

\* the ElevenLabs branch without the status test
WriteResponseContent_NoStatusTest ==
    /\ pc = "statusCode"
    /\ outFile' = File(response.content)
    /\ Exit(0, "")
    /\ UNCHANGED <<argVars, lang, checked, branch, calls, outInit, tempAiff,
                   responseJson, response, removeAttempted>>

\* if response.status_code != 200: ... sys.exit(1); else write the content
WriteResponseContent ==
    /\ pc = "statusCode"
    /\ IF response.status_code # HTTP_OK
       THEN Exit(EXIT_FAILURE, "ElevenLabs failed") /\ UNCHANGED outFile
       ELSE /\ outFile' = File(response.content)
            /\ Exit(0, "")
    /\ UNCHANGED <<argVars, lang, checked, branch, calls, outInit, tempAiff,
                   responseJson, response, removeAttempted>>

\* subprocess.call(['say', ..., '-o', 'temp.aiff', text]): the return code
\* is dropped; only a command that cannot be started raises
Say ==
    /\ pc = "say"
    /\ IF lang \notin DOMAIN sayVoiceByLang
       THEN /\ Exit(EXIT_FAILURE, "KeyError")
            /\ UNCHANGED <<calls, tempAiff>>
       ELSE \E o \in ProcessOutcomes :
            /\ calls' = Append(calls, Call("say", o))
            /\ \/ /\ o = "zero"
                  /\ tempAiff' = TRUE
                  /\ pc' = "ffmpeg"
                  /\ UNCHANGED <<exitStatus, stdout>>
               \/ /\ o = "nonzero"
                  /\ tempAiff' \in {tempAiff, TRUE}
                  /\ pc' = "ffmpeg"
                  /\ UNCHANGED <<exitStatus, stdout>>
               \/ /\ o = "oserror"
                  /\ UNCHANGED tempAiff
                  /\ Exit(EXIT_FAILURE, "OSError")
    /\ UNCHANGED <<argVars, lang, checked, branch, outInit, outFile,
                   responseJson, response, removeAttempted>>

\* subprocess.call(['ffmpeg', '-y', '-i', 'temp.aiff', ..., targetFile])
Ffmpeg ==
    /\ pc = "ffmpeg"
    /\ \E o \in ProcessOutcomes :
         /\ calls' = Append(calls, Call("ffmpeg", o))
         /\ \/ /\ o = "zero"
               /\ tempAiff
               /\ outFile' = File(<<73, 68, 51>>)
               /\ pc' = "remove"
               /\ UNCHANGED <<exitStatus, stdout>>
            \/ /\ o = "nonzero"
               /\ outFile' \in {outFile, File(<<>>)}
               /\ pc' = "remove"
               /\ UNCHANGED <<exitStatus, stdout>>
            \/ /\ o = "oserror"
               /\ UNCHANGED outFile
               /\ Exit(EXIT_FAILURE, "OSError")
    /\ UNCHANGED <<argVars, lang, checked, branch, outInit, tempAiff,
                   responseJson, response, removeAttempted>>

\* os.remove('temp.aiff'): FileNotFoundError when it is not there
RemoveTemp ==
    /\ pc = "remove"
    /\ removeAttempted' = TRUE
    /\ tempAiff' = FALSE
    /\ IF tempAiff THEN Exit(0, "") ELSE Exit(EXIT_FAILURE, "FileNotFoundError")
    /\ UNCHANGED <<argVars, lang, checked, branch, calls, outInit, outFile,
                   responseJson, response>>

Next ==
    \/ ParseArgs
    \/ CheckArgs
    \/ CheckOutputExists
    \/ TextToSpeech
    \/ AwsPolly
    \/ PostJson
    \/ WriteAudioContent
    \/ RequestsPost
    \/ WriteResponseContent
    \/ Say
    \/ Ffmpeg
    \/ RemoveTemp

Spec == Init /\ [][Next]_vars

\* ------------------------------------------------------------ properties
Providers == {"say", "amazon", "google", "elevenlabs"}

\* the selector of provider p was given on the command line
Supplied(p) ==
    CASE p = "say" -> use_say
      [] p = "amazon" -> use_amazon
      [] p = "google" -> use_google_key.given
      [] p = "elevenlabs" -> use_elevenlabs_key.given

NumSupplied == Cardinality({p \in Providers : Supplied(p)})

\* external calls a provider's algorithm may issue
CommandsOf(p) ==
    CASE p = "say" -> {"say", "ffmpeg"}
      [] p = "amazon" -> {"aws"}
      [] p = "google" -> {"google"}
      [] p = "elevenlabs" -> {"elevenlabs"}

Ended == pc = "done"
LastPrinted == IF stdout = <<>> THEN "" ELSE stdout[Len(stdout)]

\* parse_args and checkArgs both returned
ValidationPassed ==
    /\ pc \notin {"parse", "checkArgs"}
    /\ ~(Ended /\ exitStatus = EXIT_USAGE)

\* C1: a supplied provider whose table lacks the language makes the run
\* print the usage error and end with status 2, with no external call and
\* no write of the output file at any point.
C1_UnsupportedLanguageRejected ==
    \A p \in Providers :
        (Supplied(p) /\ lang \notin TableOf(p)) =>
            /\ calls = <<>>
            /\ outFile = outInit
            /\ branch = "none"
            /\ Ended => (exitStatus = EXIT_USAGE
                         /\ LastPrinted = "language unsupported")

C3_ExistingOutputFailsBeforeSynthesis ==
    (outInit.exists /\ ValidationPassed) =>
        /\ branch = "none"
        /\ calls = <<>>
        /\ outFile = outInit
        /\ pc \in {"exists", "done"}
        /\ Ended => exitStatus = EXIT_FAILURE

C3_Witness ==
    /\ outInit.exists
    /\ NumSupplied >= 1
    /\ Ended
    /\ exitStatus = EXIT_FAILURE
    /\ LastPrinted = "output exists"

\* C4: on the ElevenLabs path a response with a status other than 200 ends
\* the run with status 1 and the output file is never created; the file
\* exists only after a 200 response and then holds the raw response bytes.
C4_ElevenLabsNon200 ==
    branch = "elevenlabs" =>
        /\ (response # NoResponse /\ response.status_code # HTTP_OK) =>
              /\ ~outFile.exists
              /\ Ended => exitStatus = EXIT_FAILURE
        /\ outFile.exists =>
              /\ response.status_code = HTTP_OK
              /\ outFile.data = response.content
              /\ Ended

C4_Witness ==
    /\ branch = "elevenlabs"
    /\ response.status_code \notin {0, HTTP_OK}
    /\ Len(response.content) > 0
    /\ Ended
    /\ exitStatus = EXIT_FAILURE
    /\ ~outFile.exists

\* C5: on the OS-voice path temp.aiff does not exist once the run has
\* ended, and once ffmpeg has been attempted the removal is attempted too.
C5_TempAiffRemoved ==
    (branch = "say" /\ Ended) =>
        /\ ~tempAiff
        /\ (\E i \in 1..Len(calls) : calls[i].cmd = "ffmpeg") => removeAttempted

\* C6: after the first external process that returns non-zero no further
\* external call is issued, each command is invoked at most once, and the
\* run does not end with status 0.
C6_NonZeroIsTerminal ==
    /\ \A i \in 1..Len(calls) : calls[i].outcome = "nonzero" => i = Len(calls)
    /\ \A i, j \in 1..Len(calls) : calls[i].cmd = calls[j].cmd => i = j
    /\ (Ended /\ \E i \in 1..Len(calls) : calls[i].outcome = "nonzero")
          => exitStatus # 0

\* C7: a run that reaches dispatch with only one selector supplied executes
\* that provider's algorithm and issues only that provider's calls.
C7_SelectedProviderRuns ==
    \A p \in Providers :
        (branch # "none" /\ NumSupplied = 1 /\ Supplied(p)) =>
            /\ branch = p
            /\ \A i \in 1..Len(calls) : calls[i].cmd \in CommandsOf(p)

\* C8: on the Google path, when the HTTP call or the parsing raises,
\* postJson logs it and returns an empty result; the run then does not end
\* successfully and the output file is never created.
C8_GoogleSwallowedException ==
    (branch = "google" /\ calls = <<Call("google", "raised")>>) =>
        /\ responseJson.kind = "None"
        /\ \E i \in 1..Len(stdout) : stdout[i] = "exception"
        /\ ~outFile.exists
        /\ pc \in {"audioContent", "done"}
        /\ Ended => (exitStatus = EXIT_FAILURE /\ LastPrinted = "TypeError")

C8_Witness ==
    /\ branch = "google"
    /\ responseJson.kind = "None"
    /\ Ended
    /\ exitStatus = EXIT_FAILURE
    /\ ~outFile.exists

\* C9: whenever a run reaches textToSpeech, the language is in the table
\* the executed branch looks up, and checkArgs has checked that table.
C9_ChecksCoverBranch ==
    (branch \in {"amazon", "google", "say"}) =>
        /\ lang \in TableOf(branch)
        /\ branch \in checked

NonEmptyKeys ==
    /\ use_google_key # Some(<<>>)
    /\ use_elevenlabs_key # Some(<<>>)

\* the statements of C1, C7 and C9 hold in every run whose keys are not
\* empty strings
HoldsForNonEmptyKeys ==
    NonEmptyKeys =>
        /\ C1_UnsupportedLanguageRejected
        /\ C7_SelectedProviderRuns
        /\ C9_ChecksCoverBranch

\* the table lookup of the executed branch never misses, empty keys included
LanguageInTableUsed ==
    branch \in {"amazon", "google", "say"} => lang \in TableOf(branch)

\* the statement of C5 holds in every run in which each command started
HoldsWhenCommandsStart ==
    (\A i \in 1..Len(calls) : calls[i].outcome # "oserror")
        => C5_TempAiffRemoved

\* the statement of C6 holds off the OS-voice path
HoldsOffOSVoicePath ==
    branch # "say" => C6_NonZeroIsTerminal
====
